---------------------------- MODULE Spec2Model ----------------------------
(***************************************************************************)
(* Model of the DevPlanner controller in "src/Note App/Traycer AI.tsx":    *)
(* the App component's state (prompt, plan, isLoading, error), its two     *)
(* handlers handleToggleTask and handleSubmit, the pending continuations   *)
(* of handleSubmit across its two awaits, and the render of the plan.      *)
(*                                                                         *)
(* JavaScript values are records of one uniform shape (JSValue below).  A  *)
(* JavaScript string is a sequence of symbols: a prompt is a sequence of   *)
(* characters, a JSON text is a sequence of lexical tokens, an ordinary    *)
(* word such as 'todo' is the one-symbol sequence <<"todo">>.              *)
(*                                                                         *)
(* React commits the state updates of one synchronous run of a handler     *)
(* (or of one continuation after an await) together, so each such run is   *)
(* one action.                                                             *)
(***************************************************************************)
EXTENDS Integers, Sequences, FiniteSets, TLC

VARIABLES prompt, plan, isLoading, error, requests, crashed, uncaught,
          last, ended

vars == <<prompt, plan, isLoading, error, requests, crashed, uncaught,
          last, ended>>

---------------------------------------------------------------------------
(* Bounds of the model.                                                    *)

\* Most tasks in a generated plan; task ids are drawn from 1..MaxTasks.
MaxTasks == 2

\* Longest prompt, in characters.
MaxPromptLen == 2

\* Most handleSubmit continuations pending at once that the model follows
\* (the code's own guard keeps it at one; the cap never binds there).
MaxRequests == 2

---------------------------------------------------------------------------
(* JavaScript values.                                                      *)

JSValue(kind, bool, num, str, arr, obj) ==
    [k |-> kind, b |-> bool, n |-> num, s |-> str, a |-> arr, o |-> obj]

Undefined == JSValue("undefined", FALSE, 0, <<>>, <<>>, <<>>)
Null      == JSValue("null", FALSE, 0, <<>>, <<>>, <<>>)
Bool(x)   == JSValue("boolean", x, 0, <<>>, <<>>, <<>>)
Num(x)    == JSValue("number", FALSE, x, <<>>, <<>>, <<>>)
Str(x)    == JSValue("string", FALSE, 0, x, <<>>, <<>>)
Arr(x)    == JSValue("array", FALSE, 0, <<>>, x, <<>>)
\* An object is its properties in insertion order.
Obj(x)    == JSValue("object", FALSE, 0, <<>>, <<>>, x)

Prop(key, val) == [key |-> key, val |-> val]

\* A one-symbol string.
Word(x) == Str(<<x>>)

\* ToBoolean: what `!v`, `v && ...` and `v || ...` test.
Truthy(v) ==
    CASE v.k = "undefined" -> FALSE
      [] v.k = "null"      -> FALSE
      [] v.k = "boolean"   -> v.b
      [] v.k = "number"    -> v.n # 0
      [] v.k = "string"    -> v.s # <<>>
      [] OTHER             -> TRUE

Nullish(v) == v.k \in {"undefined", "null"}

HasProp(v, key) == v.k = "object" /\ \E i \in 1..Len(v.o) : v.o[i].key = key

\* v.key on a value that is not null or undefined: an absent property
\* reads as undefined.
Get(v, key) ==
    IF HasProp(v, key)
    THEN v.o[CHOOSE i \in 1..Len(v.o) : v.o[i].key = key].val
    ELSE Undefined

\* v?.key
OptGet(v, key) == IF Nullish(v) THEN Undefined ELSE Get(v, key)

\* v?.[0]
OptFirst(v) ==
    IF v.k = "array" /\ Len(v.a) > 0 THEN v.a[1] ELSE Undefined

\* { ...v, key: val }: the property keeps its place when v has it, and is
\* added last when it has not.  Spreading a value that is not an object
\* copies nothing.
SpreadWith(v, key, val) ==
    LET props == IF v.k = "object" THEN v.o ELSE <<>>
    IN  IF \E i \in 1..Len(props) : props[i].key = key
        THEN Obj([i \in 1..Len(props) |->
                    IF props[i].key = key THEN Prop(key, val) ELSE props[i]])
        ELSE Obj(Append(props, Prop(key, val)))

\* new Error(message), as far as the handlers read it.
Error(message) == Obj(<<Prop("message", Str(message))>>)

\* The outcome of running code that may throw.
Returned(v) == [threw |-> FALSE, val |-> v]
Threw(e)    == [threw |-> TRUE, val |-> e]

---------------------------------------------------------------------------
(* String.prototype.trim and JSON.parse.                                   *)

WhiteSpace == {" "}

RECURSIVE TrimStart(_)
TrimStart(str) ==
    IF str # <<>> /\ Head(str) \in WhiteSpace THEN TrimStart(Tail(str)) ELSE str

RECURSIVE TrimEnd(_)
TrimEnd(str) ==
    IF str # <<>> /\ str[Len(str)] \in WhiteSpace
    THEN TrimEnd(SubSeq(str, 1, Len(str) - 1))
    ELSE str

\* prompt.trim()
Trim(str) == TrimEnd(TrimStart(str))

\* The words that JSON texts of the model quote.
Words == {"title", "tasks", "id", "description", "status", "file_path",
          "code_snippet", "todo", "done", "blocked", "Add login",
          "Create form", "...", "src/Login.tsx"}

Digits == 0..9

\* The JSON string token for a word, and the number token for a digit.
Quote(word) == "\"" \o word \o "\""

StringTokens == {Quote(w) : w \in Words}
NumberTokens == {ToString(d) : d \in Digits}

IsScalarToken(tok) ==
    tok \in {"null", "true", "false"} \cup NumberTokens \cup StringTokens

ScalarOf(tok) ==
    CASE tok = "null"  -> Null
      [] tok = "true"  -> Bool(TRUE)
      [] tok = "false" -> Bool(FALSE)
      [] tok \in NumberTokens -> Num(CHOOSE d \in Digits : ToString(d) = tok)
      [] OTHER -> Word(CHOOSE w \in Words : Quote(w) = tok)

\* The JSON grammar over tokens.  A parse step yields the value and the
\* position after it, or fails.
Parsed(v, next) == [ok |-> TRUE, val |-> v, pos |-> next]
Unparsed == [ok |-> FALSE, val |-> Undefined, pos |-> 0]

At(toks, i) == IF i \in 1..Len(toks) THEN toks[i] ELSE "<end>"

\* An object's property set by a member: a repeated key keeps its place
\* and takes the later value.
Define(props, key, val) == SpreadWith(Obj(props), key, val).o

RECURSIVE ParseValue(_, _), ParseElements(_, _, _), ParseMembers(_, _, _)

ParseValue(toks, i) ==
    CASE At(toks, i) = "[" ->
           IF At(toks, i + 1) = "]" THEN Parsed(Arr(<<>>), i + 2)
           ELSE ParseElements(toks, i + 1, <<>>)
      [] At(toks, i) = "{" ->
           IF At(toks, i + 1) = "}" THEN Parsed(Obj(<<>>), i + 2)
           ELSE ParseMembers(toks, i + 1, <<>>)
      [] IsScalarToken(At(toks, i)) -> Parsed(ScalarOf(toks[i]), i + 1)
      [] OTHER -> Unparsed

\* value ("," value)* "]"
ParseElements(toks, i, acc) ==
    LET r == ParseValue(toks, i)
    IN  IF ~r.ok THEN Unparsed
        ELSE CASE At(toks, r.pos) = "," ->
                    ParseElements(toks, r.pos + 1, Append(acc, r.val))
               [] At(toks, r.pos) = "]" ->
                    Parsed(Arr(Append(acc, r.val)), r.pos + 1)
               [] OTHER -> Unparsed

\* string ":" value ("," string ":" value)* "}"
ParseMembers(toks, i, acc) ==
    IF ~(At(toks, i) \in StringTokens /\ At(toks, i + 1) = ":") THEN Unparsed
    ELSE LET key == ScalarOf(toks[i]).s[1]
             r   == ParseValue(toks, i + 2)
         IN  IF ~r.ok THEN Unparsed
             ELSE CASE At(toks, r.pos) = "," ->
                         ParseMembers(toks, r.pos + 1, Define(acc, key, r.val))
                    [] At(toks, r.pos) = "}" ->
                         Parsed(Obj(Define(acc, key, r.val)), r.pos + 1)
                    [] OTHER -> Unparsed

SyntaxError == Error(<<"Unexpected token in JSON">>)

\* JSON.parse(text): the value of a text that is one JSON value and
\* nothing more, a SyntaxError for any other text.
JSONParse(text) ==
    LET r == ParseValue(text.s, 1)
    IN  IF r.ok /\ r.pos = Len(text.s) + 1 THEN Returned(r.val)
        ELSE Threw(SyntaxError)

\* JSON.stringify, token by token: what the remote generator writes.
RECURSIVE Stringify(_), StringifyElements(_, _), StringifyMembers(_, _)

Stringify(v) ==
    CASE v.k = "null"    -> <<"null">>
      [] v.k = "boolean" -> IF v.b THEN <<"true">> ELSE <<"false">>
      [] v.k = "number"  -> <<ToString(v.n)>>
      [] v.k = "string"  -> <<Quote(v.s[1])>>
      [] v.k = "array"   -> <<"[">> \o StringifyElements(v.a, 1) \o <<"]">>
      [] OTHER           -> <<"{">> \o StringifyMembers(v.o, 1) \o <<"}">>

StringifyElements(arr, i) ==
    IF i > Len(arr) THEN <<>>
    ELSE Stringify(arr[i])
         \o (IF i < Len(arr) THEN <<",">> ELSE <<>>)
         \o StringifyElements(arr, i + 1)

StringifyMembers(props, i) ==
    IF i > Len(props) THEN <<>>
    ELSE <<Quote(props[i].key), ":">> \o Stringify(props[i].val)
         \o (IF i < Len(props) THEN <<",">> ELSE <<>>)
         \o StringifyMembers(props, i + 1)

---------------------------------------------------------------------------
(* The App component: state and handlers.                                  *)

\* The three useState cells the handlers write, as one record.
UI(p, l, e) == [plan |-> p, isLoading |-> l, error |-> e]

\* a === b, for the values the handlers compare (numbers, strings,
\* undefined): two objects are never the same reference here.
StrictEquals(a, b) == a.k \notin {"array", "object"} /\ a = b

TypeError == Error(<<"Cannot read properties of undefined">>)

\* ToggleStatus without the test of the id: every task is flipped.
ToggleStatusOfEveryTask(task, taskId) ==
    SpreadWith(task, "status",
               IF StrictEquals(Get(task, "status"), Word("todo"))
               THEN Word("done") ELSE Word("todo"))

\* ToggleStatus with the test of the id inverted.
ToggleStatusOfOtherTasks(task, taskId) ==
    IF StrictEquals(Get(task, "id"), taskId) THEN task
    ELSE ToggleStatusOfEveryTask(task, taskId)

\* The callback of tasks.map in handleToggleTask.
ToggleStatus(task, taskId) ==
    IF StrictEquals(Get(task, "id"), taskId)
    THEN SpreadWith(task, "status",
                    IF StrictEquals(Get(task, "status"), Word("todo"))
                    THEN Word("done") ELSE Word("todo"))
    ELSE task

\* The updater handleToggleTask passes to setPlan.
toggleTask(prevPlan, taskId) ==
    IF ~Truthy(prevPlan) THEN Returned(Null)
    ELSE LET tasks == Get(prevPlan, "tasks")
         IN  IF tasks.k # "array" \/ \E i \in 1..Len(tasks.a) : Nullish(tasks.a[i])
             THEN Threw(TypeError)
             ELSE Returned(SpreadWith(prevPlan, "tasks",
                     Arr([i \in 1..Len(tasks.a) |->
                            ToggleStatus(tasks.a[i], taskId)])))

\* The guard without `|| isLoading`.
SubmitIgnoresLoading(p, loading) == ~Truthy(Str(Trim(p)))

\* The guard with `!prompt` for `!prompt.trim()`.
SubmitWithoutTrim(p, loading) == ~Truthy(Str(p)) \/ loading

\* `!prompt.trim() || isLoading`: handleSubmit returns at once.
SubmitReturnsEarly(p, loading) == ~Truthy(Str(Trim(p))) \/ loading

\* The updates without setPlan(null).
SubmittedKeepingPlan(ui) == [ui EXCEPT !.isLoading = TRUE, !.error = Null]

\* setIsLoading(true); setError(null); setPlan(null)
Submitted(ui) == [ui EXCEPT !.isLoading = TRUE, !.error = Null, !.plan = Null]

\* `API error: ${response.status} ${response.statusText}`
ApiError(response) ==
    Error(<<"API error: ", ToString(Get(response, "status").n), " ">>
          \o Get(response, "statusText").s)

\* Lines 188-196: the continuation once fetch has settled.  A fulfilled,
\* ok response goes on to await response.json().
AfterFetch(settled) ==
    IF settled.threw THEN Threw(settled.val)
    ELSE IF ~Truthy(Get(settled.val, "ok")) THEN Threw(ApiError(settled.val))
    ELSE Returned(Undefined)

InvalidStructure == Error(<<"Invalid response structure from AI model.">>)

\* candidate.content?.parts?.[0]?.text
TextOf(candidate) ==
    OptGet(OptFirst(OptGet(Get(candidate, "content"), "parts")), "text")

\* Lines 198-207: the continuation once response.json() has settled.
AfterJson(settled) ==
    IF settled.threw THEN Threw(settled.val)
    ELSE LET result == settled.val
         IN  IF Nullish(result) THEN Threw(TypeError)
             ELSE LET candidate == OptFirst(Get(result, "candidates"))
                  IN  IF Truthy(candidate) /\ Truthy(TextOf(candidate))
                      THEN JSONParse(TextOf(candidate))
                      ELSE Threw(InvalidStructure)

\* The message without its fallback.
ErrorMessageWithoutFallback(err) == Get(err, "message")

\* err.message || "An unexpected error occurred. Please try again."
ErrorMessage(err) ==
    IF Truthy(Get(err, "message")) THEN Get(err, "message")
    ELSE Str(<<"An unexpected error occurred. Please try again.">>)

\* The updates with setIsLoading(false) at the end of the try block
\* in place of the finally block.
SettledWithoutFinally(ui, tried) ==
    IF tried.threw
    THEN [ui EXCEPT !.error = ErrorMessage(tried.val)]
    ELSE [ui EXCEPT !.plan = tried.val, !.isLoading = FALSE]

\* Lines 204 and 209-214: what the try block's end, the catch block and
\* the finally block set, given how the try block tried.
Settled(ui, tried) ==
    IF tried.threw
    THEN [ui EXCEPT !.error = ErrorMessage(tried.val), !.isLoading = FALSE]
    ELSE [ui EXCEPT !.plan = tried.val, !.isLoading = FALSE]

\* The catch block reads err.message, which itself throws for a thrown
\* null or undefined; handleSubmit's promise then rejects.
CatchThrows(tried) == tried.threw /\ Nullish(tried.val)

\* Lines 272-283 and 92-116: rendering a truthy plan calls plan.tasks.map
\* and reads task.status of every element; either may throw, and an error
\* thrown while rendering unmounts the component tree.
RenderThrows(ui) ==
    /\ Truthy(ui.plan)
    /\ LET tasks == Get(ui.plan, "tasks")
       IN  tasks.k # "array" \/ \E i \in 1..Len(tasks.a) : Nullish(tasks.a[i])

\* The ids of the TaskCards on screen: each card's button calls
\* onToggle(task.id).
RenderedIds(ui) ==
    IF Truthy(ui.plan) /\ ~RenderThrows(ui)
    THEN {Get(Get(ui.plan, "tasks").a[i], "id") :
            i \in 1..Len(Get(ui.plan, "tasks").a)}
    ELSE {}

\* interface Plan and interface Task: whether a value has the Plan shape.
IsString(v) == v.k = "string"

IsTask(v) ==
    /\ v.k = "object"
    /\ Get(v, "id").k = "number"
    /\ IsString(Get(v, "title"))
    /\ IsString(Get(v, "description"))
    /\ Get(v, "status") \in {Word("todo"), Word("done")}
    /\ HasProp(v, "file_path") => IsString(Get(v, "file_path"))
    /\ HasProp(v, "code_snippet") => IsString(Get(v, "code_snippet"))

IsPlan(v) ==
    /\ v.k = "object"
    /\ IsString(Get(v, "title"))
    /\ Get(v, "tasks").k = "array"
    /\ \A i \in 1..Len(Get(v, "tasks").a) : IsTask(Get(v, "tasks").a[i])

---------------------------------------------------------------------------
(* What the user and the network can supply.                               *)

PromptChars == {" ", "a"}

\* Every text the textarea can hold, up to MaxPromptLen characters.
Prompts == UNION {[1..n -> PromptChars] : n \in 0..MaxPromptLen}

TaskIds == 1..MaxTasks

\* What the generator may write for a task's status: the schema's 'todo',
\* a word outside the schema, or nothing.
Statuses == {"todo", "blocked", "<absent>"}

\* The task at position pos of a generated plan.  The first task carries
\* the optional file_path.
GeneratedTask(pos, id, status) ==
    Obj(<<Prop("id", Num(id)),
          Prop("title", Word("Create form")),
          Prop("description", Word("..."))>>
        \o (IF pos = 1 THEN <<Prop("file_path", Word("src/Login.tsx"))>> ELSE <<>>)
        \o (IF status = "<absent>" THEN <<>> ELSE <<Prop("status", Word(status))>>))

GeneratedPlan(choice) ==
    Obj(<<Prop("title", Word("Add login")),
          Prop("tasks", Arr([i \in DOMAIN choice |->
                               GeneratedTask(i, choice[i][1], choice[i][2])]))>>)

\* Objects with a title and up to MaxTasks tasks, ids repeated or not.
GeneratedPlans ==
    {GeneratedPlan(c) :
        c \in UNION {[1..n -> TaskIds \X Statuses] : n \in 0..MaxTasks}}

\* Other JSON values a text payload may encode.
OtherValues ==
    {Null, Bool(FALSE), Num(0), Num(7), Arr(<<>>), Obj(<<>>),
     Obj(<<Prop("title", Word("Add login"))>>),
     Obj(<<Prop("title", Word("Add login")), Prop("tasks", Arr(<<Null>>))>>)}

\* A JSON text with a comma before its closing token, and one cut short.
TrailingComma(toks) ==
    SubSeq(toks, 1, Len(toks) - 1) \o <<",", toks[Len(toks)]>>

CutShort(toks) == SubSeq(toks, 1, Len(toks) - 1)

ExamplePlan == GeneratedPlan(<<<<1, "todo">>>>)

\* The text payloads of the model.
PayloadTexts ==
    {Stringify(v) : v \in GeneratedPlans \cup OtherValues}
    \cup {TrailingComma(Stringify(ExamplePlan)), CutShort(Stringify(ExamplePlan)),
          TrailingComma(Stringify(Arr(<<Num(1)>>)))}

\* The envelope that carries a text payload.
Envelope(text) ==
    Obj(<<Prop("candidates", Arr(<<
        Obj(<<Prop("content",
            Obj(<<Prop("parts", Arr(<<Obj(<<Prop("text", Str(text))>>)>>))>>))>>)>>))>>)

\* Envelopes without a text payload.
BareEnvelopes ==
    {Null, Obj(<<>>),
     Obj(<<Prop("candidates", Arr(<<>>))>>),
     Obj(<<Prop("candidates", Arr(<<Obj(<<>>)>>))>>),
     Obj(<<Prop("candidates", Arr(<<Obj(<<Prop("content", Obj(<<>>))>>)>>))>>),
     Obj(<<Prop("candidates", Arr(<<Obj(<<Prop("content",
            Obj(<<Prop("parts", Arr(<<>>))>>))>>)>>))>>),
     Envelope(<<>>)}

\* What response.json() can fulfil with.
Results == BareEnvelopes \cup {Envelope(t) : t \in PayloadTexts}

Response(status, statusText) ==
    Obj(<<Prop("ok", Bool(status \in 200..299)),
          Prop("status", Num(status)),
          Prop("statusText", Word(statusText))>>)

\* What fetch can fulfil with.
Responses ==
    {Response(200, "OK"), Response(404, "Not Found"),
     Response(500, "Internal Server Error")}

\* What fetch and response.json() can reject with: a network failure, a
\* body that is not JSON, an error that carries no message.
Rejections == {Error(<<"Failed to fetch">>), SyntaxError, Error(<<>>)}

---------------------------------------------------------------------------
(* The state machine.                                                      *)

\* History, in last: the handler that ran last, its argument, the state
\* it found and whether a submit went on to issue a request; in ended: how
\* the try block of a continuation of handleSubmit ended ("threw" or
\* "returned"; "pending" at the second await; "" for the other handlers).
Last(op, arg, before, accepted) ==
    [op |-> op, arg |-> arg, before |-> before, accepted |-> accepted]

ui == UI(plan, isLoading, error)

\* The state a handler finds: the three cells and the requests pending.
Found == [ui |-> ui, pending |-> Len(requests)]

Commit(new) ==
    /\ plan' = new.plan
    /\ isLoading' = new.isLoading
    /\ error' = new.error

Init ==
    /\ prompt = <<>>
    /\ plan = Null
    /\ isLoading = FALSE
    /\ error = Null
    /\ requests = <<>>
    /\ crashed = FALSE
    /\ uncaught = FALSE
    /\ last = Last("init", Undefined, Found, FALSE)
    /\ ended = ""

\* onChange of the textarea, which is disabled while isLoading.
SetPrompt(value) ==
    /\ ~crashed
    /\ ~isLoading
    /\ prompt' = value
    /\ last' = Last("setPrompt", Undefined, Found, FALSE)
    /\ ended' = ""
    /\ UNCHANGED <<plan, isLoading, error, requests, crashed, uncaught>>

\* handleToggleTask(taskId): setPlan with the updater, then the render.
HandleToggleTask(taskId) ==
    /\ ~crashed
    /\ LET updated == toggleTask(plan, taskId)
           new == IF updated.threw THEN ui ELSE [ui EXCEPT !.plan = updated.val]
       IN  /\ Commit(new)
           /\ crashed' = (updated.threw \/ RenderThrows(new))
    /\ last' = Last("toggle", taskId, Found, FALSE)
    /\ ended' = ""
    /\ UNCHANGED <<prompt, requests, uncaught>>

\* A click on the button of a TaskCard on screen.
ClickTask ==
    \E taskId \in RenderedIds(ui) : HandleToggleTask(taskId)

\* handleSubmit up to its first await: the guard, the three state updates
\* and the call of fetch.
HandleSubmit ==
    /\ ~crashed
    /\ IF SubmitReturnsEarly(prompt, isLoading)
       THEN /\ last' = Last("submit", Undefined, Found, FALSE)
            /\ UNCHANGED <<plan, isLoading, error, requests>>
       ELSE /\ Len(requests) < MaxRequests
            /\ Commit(Submitted(ui))
            /\ requests' = Append(requests, "fetch")
            /\ last' = Last("submit", Undefined, Found, TRUE)
    /\ ended' = ""
    /\ UNCHANGED <<prompt, crashed, uncaught>>

Remove(seq, i) == SubSeq(seq, 1, i - 1) \o SubSeq(seq, i + 1, Len(seq))

\* A continuation of handleSubmit runs to its end: the catch and finally
\* blocks, then the render.  The updates of an unmounted component are
\* dropped.
Finish(i, op, arg, outcome) ==
    /\ last' = Last(op, arg, Found, FALSE)
    /\ requests' = Remove(requests, i)
    /\ \E tried \in {outcome} :
       \E new \in {IF crashed THEN ui ELSE Settled(ui, tried)} :
           /\ ended' = (IF tried.threw THEN "threw" ELSE "returned")
           /\ Commit(new)
           /\ crashed' = (crashed \/ RenderThrows(new))
           /\ uncaught' = (uncaught \/ CatchThrows(tried))

\* handleSubmit number i is suspended at the await named.
Awaits(i, what) == i \in 1..Len(requests) /\ requests[i] = what

\* fetch settles and handleSubmit resumes at line 194.
Resume(i, settled, arg) ==
    /\ \E tried \in {AfterFetch(settled)} :
           IF tried.threw
           THEN Finish(i, "fetch", arg, tried)
           ELSE /\ requests' = [requests EXCEPT ![i] = "json"]
                /\ last' = Last("fetch", arg, Found, FALSE)
                /\ ended' = "pending"
                /\ UNCHANGED <<plan, isLoading, error, crashed, uncaught>>
    /\ UNCHANGED prompt

FetchFulfils(i) ==
    /\ Awaits(i, "fetch")
    /\ \E response \in Responses : Resume(i, Returned(response), response)

FetchRejects(i) ==
    /\ Awaits(i, "fetch")
    /\ \E err \in Rejections : Resume(i, Threw(err), err)

\* response.json() settles and handleSubmit resumes at line 200.
JsonSettles(i, settled, arg) ==
    /\ Finish(i, "json", arg, AfterJson(settled))
    /\ UNCHANGED prompt

JsonFulfils(i) ==
    /\ Awaits(i, "json")
    /\ \E result \in Results : JsonSettles(i, Returned(result), result)

JsonRejects(i) ==
    /\ Awaits(i, "json")
    /\ JsonSettles(i, Threw(SyntaxError), Undefined)

Network ==
    \E i \in 1..MaxRequests :
        FetchRejects(i) \/ FetchFulfils(i) \/ JsonRejects(i) \/ JsonFulfils(i)

User ==
    \/ \E value \in Prompts : SetPrompt(value)
    \/ HandleSubmit
    \/ ClickTask

Next == User \/ Network

Spec == Init /\ [][Next]_vars

\* The network call completes or fails: a pending continuation is resumed.
FairSpec == Spec /\ WF_vars(Network)

\* handleToggleTask as a function of any plan and any task id: every
\* generated plan, toggled with ids it carries and ids it does not.
ToggleIds == {Num(i) : i \in 1..MaxTasks + 1}

ToggleInit ==
    /\ prompt = <<>>
    /\ plan \in GeneratedPlans
    /\ isLoading = FALSE
    /\ error = Null
    /\ requests = <<>>
    /\ crashed = FALSE
    /\ uncaught = FALSE
    /\ last = Last("init", Undefined, Found, FALSE)
    /\ ended = ""

ToggleNext == \E taskId \in ToggleIds : HandleToggleTask(taskId)

ToggleSpec == ToggleInit /\ [][ToggleNext]_vars

---------------------------------------------------------------------------
(* Properties.                                                             *)

Completed == last.op \in {"fetch", "json"} /\ ended \in {"threw", "returned"}

Failed == last.op \in {"fetch", "json"} /\ ended = "threw"

ErrorState == ~isLoading /\ error.k = "string" /\ error.s # <<>> /\ plan = Null

\* The text payload of a response.json() result, when it carries one.
HasPayload(result) ==
    /\ ~Nullish(result)
    /\ Truthy(OptFirst(Get(result, "candidates")))
    /\ Truthy(TextOf(OptFirst(Get(result, "candidates"))))

PayloadOf(result) == TextOf(OptFirst(Get(result, "candidates")))

\* C1: at most one request is outstanding, and a submit that finds a
\* request in flight issues none and leaves plan, error and isLoading as
\* they were.
OneRequestInFlight ==
    /\ Len(requests) <= 1
    /\ (last.op = "submit" /\ last.before.pending > 0) =>
          /\ ~last.accepted
          /\ Len(requests) = last.before.pending
          /\ ui = last.before.ui

\* A submit arrived while the request was in flight and was ignored.
SubmitWhileInFlight ==
    /\ last.op = "submit"
    /\ last.before.pending = 1
    /\ last.before.ui.isLoading
    /\ Len(requests) = 1

\* C2: a continuation of handleSubmit that ends by a throw (transport
\* status, envelope without text, parse failure, any other exception)
\* leaves the error state: not loading, a non-empty message, no plan;
\* and handleSubmit's promise does not reject.
FailureEndsInErrorState == Failed => (ErrorState /\ ~uncaught)

\* The text payload failed to parse and the message is the SyntaxError's.
ParseFailureShown ==
    /\ Failed
    /\ last.op = "json"
    /\ HasPayload(last.arg)
    /\ error = Get(SyntaxError, "message")

\* C3: a text payload that is not valid JSON, or is valid JSON without
\* the Plan shape, ends in the error state with no plan stored.
BadPayloadEndsInErrorState ==
    (/\ last.op = "json"
     /\ HasPayload(last.arg)
     /\ \/ JSONParse(PayloadOf(last.arg)).threw
        \/ ~IsPlan(JSONParse(PayloadOf(last.arg)).val))
    => ErrorState

\* C4: once a request has completed, either a plan is stored and no
\* error is set, or an error is set and no plan is stored; never neither.
CompletionIsSuccessOrError ==
    Completed =>
        /\ ~isLoading
        /\ \/ plan # Null /\ error = Null
           \/ error # Null /\ plan = Null

\* C5: loading is transient: once isLoading is set, it is cleared again.
LoadingIsTransient == isLoading ~> ~isLoading

\* A request was accepted, completed, and left isLoading false.
LoadingLeft == Completed /\ last.before.ui.isLoading /\ ~isLoading

\* C6: at most one of loading, a stored plan and an error message holds.
LifecycleExclusive ==
    /\ ~(isLoading /\ plan # Null)
    /\ ~(isLoading /\ error # Null)
    /\ ~(plan # Null /\ error # Null)

\* A submit found a plan on screen and entered loading.
LoadingClearedPlan ==
    /\ last.op = "submit"
    /\ last.accepted
    /\ last.before.ui.plan # Null
    /\ isLoading

TasksOf(p) == Get(p, "tasks").a

IdsOf(p) == {Get(TasksOf(p)[i], "id") : i \in 1..Len(TasksOf(p))}

\* handleToggleTask ran on a plan with a tasks array.
Toggled ==
    /\ last.op = "toggle"
    /\ Truthy(last.before.ui.plan)
    /\ Get(last.before.ui.plan, "tasks").k = "array"
    /\ ~crashed

\* Two objects agree on every property other than key.
EqualBut(x, y, key) == SpreadWith(x, key, Undefined) = SpreadWith(y, key, Undefined)

\* C7 as stated: toggling an id the plan carries changes the status of
\* exactly one task, the one with that id, and nothing else: the title,
\* the number and order of tasks and every other field are as before.
ToggleFlipsExactlyOne ==
    LET P == last.before.ui.plan
    IN  (Toggled /\ last.arg \in IdsOf(P)) =>
          /\ EqualBut(P, plan, "tasks")
          /\ Len(TasksOf(plan)) = Len(TasksOf(P))
          /\ \E i \in 1..Len(TasksOf(P)) :
                /\ Get(TasksOf(P)[i], "id") = last.arg
                /\ Get(TasksOf(plan)[i], "status") # Get(TasksOf(P)[i], "status")
                /\ EqualBut(TasksOf(P)[i], TasksOf(plan)[i], "status")
                /\ \A j \in 1..Len(TasksOf(P)) :
                      j # i => TasksOf(plan)[j] = TasksOf(P)[j]

\* C7, amended: toggling an id the plan carries changes the status of
\* every task with that id (to 'done' from 'todo', to 'todo' from
\* anything else) and nothing else: the title, the number and order of
\* tasks, every other field of those tasks and every other task are as
\* before.
ToggleFlipsEveryMatch ==
    LET P == last.before.ui.plan
    IN  (Toggled /\ last.arg \in IdsOf(P)) =>
          /\ EqualBut(P, plan, "tasks")
          /\ Len(TasksOf(plan)) = Len(TasksOf(P))
          /\ \A i \in 1..Len(TasksOf(P)) :
                IF Get(TasksOf(P)[i], "id") = last.arg
                THEN /\ EqualBut(TasksOf(P)[i], TasksOf(plan)[i], "status")
                     /\ Get(TasksOf(plan)[i], "status") =
                          IF Get(TasksOf(P)[i], "status") = Word("todo")
                          THEN Word("done") ELSE Word("todo")
                ELSE TasksOf(plan)[i] = TasksOf(P)[i]

\* A toggle ran on a plan in which two tasks carry the toggled id.
ToggledRepeatedId ==
    /\ Toggled
    /\ \E i, j \in 1..Len(TasksOf(plan)) :
          /\ i # j
          /\ Get(TasksOf(plan)[i], "id") = last.arg
          /\ Get(TasksOf(plan)[j], "id") = last.arg

\* C8: for a plan stored from a parsed response, toggling twice with the
\* same id gives the plan back.
ToggleTwiceRestores ==
    (/\ last.op = "json"
     /\ ended = "returned"
     /\ Truthy(plan)
     /\ ~crashed)
    => \A taskId \in IdsOf(plan) \cup ToggleIds :
          toggleTask(toggleTask(plan, taskId).val, taskId).val = plan

\* C9: toggling an id that no task of the plan carries gives a plan
\* equal to the one before.
ToggleOfAbsentIdKeepsPlan ==
    (Toggled /\ last.arg \notin IdsOf(last.before.ui.plan))
    => plan = last.before.ui.plan

\* A toggle ran with an id that none of the plan's tasks carries.
ToggledAbsentId ==
    /\ Toggled
    /\ TasksOf(last.before.ui.plan) # <<>>
    /\ last.arg \notin IdsOf(last.before.ui.plan)

Blank(str) == \A i \in 1..Len(str) : str[i] = " "

\* C10: a submit with an empty or whitespace-only prompt issues no
\* request and leaves isLoading, plan and error as they were.
BlankSubmitIsNoOp ==
    (last.op = "submit" /\ Blank(prompt)) =>
        /\ ~last.accepted
        /\ Len(requests) = last.before.pending
        /\ ui = last.before.ui

\* A whitespace-only prompt was submitted with a plan on screen.
BlankSubmitOnSuccess ==
    /\ last.op = "submit"
    /\ prompt # <<>>
    /\ Blank(prompt)
    /\ Truthy(plan)
    /\ error = Null

=============================================================================
